---- MODULE Spec2Model ----
(***************************************************************************)
(* A model of the healthcare-benefits search system: the keyword category  *)
(* classifier (src/src/data_processing/chunker.py), the embedding / index  *)
(* builder with its on-disk unit (src/src/models/embedding_generator.py)   *)
(* and the retriever (src/src/models/retriever.py).                        *)
(*                                                                         *)
(* The specifications share the variables:                                 *)
(*   SpecClassify  BenefitChunker._classify applied to bounded texts       *)
(*   SpecSearch    BenefitRetriever.search over a unit loaded from a       *)
(*                 completed build                                         *)
(*   SpecPersist   save_all writing the four files step by step, a crash   *)
(*                 of the writer, BenefitRetriever.__init__ and load_all   *)
(*   SpecModel     a build with any embedding model, then load and search  *)
(*   SpecChunk     chunk_file and process_all over extracted JSON files    *)
(*   SpecOps       get_plan_overview, list_plans, list_categories and      *)
(*                 get_statistics on a loaded retriever                    *)
(*   SpecCompare   compare_plans on a loaded retriever                     *)
(*   SpecConcurrent  search calls of several threads, step by step         *)
(*   SpecCalls     every call of a loaded retriever, in any sequence       *)
(*   SpecSummary   builds, loads and get_statistics on the loaded store    *)
(***************************************************************************)
EXTENDS Integers, Sequences, FiniteSets, TLC

VARIABLES
    last_classify,  \* the last chunker call (_classify, chunk_file, process_all)
                    \* with its outcome, or NoCall
    retriever,      \* the BenefitRetriever object: status, index, chunks
    last_search,    \* the last retriever call (search, compare_plans, a store
                    \* operation) with its outcome, or the calls in flight
    index_dir,      \* the directory data/index: does it exist, its four files
    saver,          \* the process running save_all: its position and its build
    loaded          \* the outcome of the last load_all call

vars == <<last_classify, retriever, last_search, index_dir, saver, loaded>>

\* Python's None, as a string so that it compares with the string fields.
None == "None"

NoCall == [op |-> "none"]

(***************************************************************************)
(* Bounds                                                                  *)
(***************************************************************************)
\* longest text handed to _classify, in vocabulary words
MaxWords == 2
\* most passages in one store
MaxN == 3
\* largest top_k tried (the smallest is -1)
MaxTopK == 2
\* number of builds written to the same location
MaxBuilds == 2

(***************************************************************************)
(* Python helpers                                                          *)
(***************************************************************************)
\* kw in text, for strings: kw occurs as a contiguous substring of text
Contains(text, kw) ==
    \E i \in 1..(Len(text) - Len(kw) + 1) : SubSeq(text, i, i + Len(kw) - 1) = kw

\* dict.get(key) with the default None
Get(d, key) == IF key \in DOMAIN d THEN d[key] ELSE None

\* truth value of an optional string argument: None and "" are falsy
Truthy(x) == x # None /\ x # ""

Min(a, b) == IF a <= b THEN a ELSE b

(***************************************************************************)
(* BenefitChunker: the category mapping and _classify                      *)
(***************************************************************************)
\* self.categories, in definition (dict insertion) order
categories == <<
    [name |-> "preventive",     keywords |-> <<"preventive", "screening", "wellness", "annual", "physical", "immunization">>],
    [name |-> "emergency",      keywords |-> <<"emergency", "urgent", "ambulance">>],
    [name |-> "hospital",       keywords |-> <<"hospital", "inpatient", "admission", "surgery", "outpatient">>],
    [name |-> "prescription",   keywords |-> <<"prescription", "drug", "pharmacy", "medication", "tier">>],
    [name |-> "dental",         keywords |-> <<"dental", "teeth", "cleaning", "orthodont", "crown", "filling">>],
    [name |-> "vision",         keywords |-> <<"vision", "eye", "glasses", "contacts", "exam", "eyewear">>],
    [name |-> "mental_health",  keywords |-> <<"mental", "therapy", "counseling", "behavioral", "psychiatrist", "psychologist">>],
    [name |-> "therapy",        keywords |-> <<"physical therapy", "occupational", "speech", "rehabilitation", "cardiac">>],
    [name |-> "specialist",     keywords |-> <<"specialist", "consultation", "referral">>],
    [name |-> "primary_care",   keywords |-> <<"primary care", "pcp", "doctor visit">>],
    [name |-> "wellness",       keywords |-> <<"gym", "fitness", "silversneakers", "wellness", "weight loss">>],
    [name |-> "telehealth",     keywords |-> <<"telehealth", "virtual", "telemedicine">>],
    [name |-> "transportation", keywords |-> <<"transportation", "rides", "trip">>],
    [name |-> "hearing",        keywords |-> <<"hearing", "hearing aid", "audiologist">>],
    [name |-> "home_health",    keywords |-> <<"home health", "home care", "home support">>],
    [name |-> "meals",          keywords |-> <<"meal", "food", "nutrition">>],
    [name |-> "otc",            keywords |-> <<"over-the-counter", "otc">>] >>

\* score = sum(1 for kw in keywords if kw in text)
KeywordScore(keywords, text) ==
    Cardinality({j \in 1..Len(keywords) : Contains(text, keywords[j])})

\* the scores dict: the categories with score > 0, in insertion order
ScoredCategories(text) ==
    SelectSeq([c \in 1..Len(categories) |-> c],
              LAMBDA c : KeywordScore(categories[c].keywords, text) > 0)

\* a faulty variant of PyMax: on a tie the later key replaces the earlier one
PyMaxLastWins(keys, text) ==
    LET Key(c) == KeywordScore(categories[c].keywords, text)
        Best[j \in 1..Len(keys)] ==
            IF j = 1 THEN keys[1]
            ELSE IF Key(keys[j]) >= Key(Best[j - 1]) THEN keys[j] ELSE Best[j - 1]
    IN Best[Len(keys)]

\* max(scores, key=scores.get): the first key, in iteration order, whose value
\* no other key exceeds (a later key replaces the best only when strictly larger)
PyMax(keys, text) ==
    LET Key(c) == KeywordScore(categories[c].keywords, text)
        Best[j \in 1..Len(keys)] ==
            IF j = 1 THEN keys[1]
            ELSE IF Key(keys[j]) > Key(Best[j - 1]) THEN keys[j] ELSE Best[j - 1]
    IN Best[Len(keys)]

\* a faulty variant of classify: a single keyword match is not enough
classifyNeedsTwoMatches(text) ==
    LET scores == SelectSeq(ScoredCategories(text),
                            LAMBDA c : KeywordScore(categories[c].keywords, text) > 1)
    IN IF scores # <<>> THEN categories[PyMax(scores, text)].name ELSE "general"

\* BenefitChunker._classify
classify(text) ==
    LET scores == ScoredCategories(text)
    IN IF scores # <<>> THEN categories[PyMax(scores, text)].name ELSE "general"

\* The words the classified texts are made of: keyword phrases of several
\* categories, a phrase that contains another ("hearing aid", "physical
\* therapy", "eyewear"), a word that hides a keyword ("provides" holds
\* "rides"), a capitalised keyword and a word with no keyword at all.
Vocabulary == {"gym", "wellness", "hearing aid", "physical therapy", "dental",
               "eyewear", "exam", "provides", "emergency", "Gym", "plan", "otc"}

RECURSIVE TextsOfLength(_)
TextsOfLength(n) ==
    IF n = 1 THEN Vocabulary
    ELSE {t \o " " \o w : t \in TextsOfLength(n - 1), w \in Vocabulary}

ClassifyTexts == {""} \cup UNION {TextsOfLength(n) : n \in 1..MaxWords}

\* a _classify call, when no other call is running
Classify(text) ==
    /\ last_classify = NoCall
    /\ last_classify' = [op |-> "classify", text |-> text, category |-> classify(text)]
    /\ UNCHANGED <<retriever, last_search, index_dir, saver, loaded>>

\* the caller takes the category; the next call can start
ClassifyReturn ==
    /\ last_classify # NoCall
    /\ last_classify' = NoCall
    /\ UNCHANGED <<retriever, last_search, index_dir, saver, loaded>>

(***************************************************************************)
(* The embedding model and the FAISS index (external libraries)            *)
(***************************************************************************)
\* The passages a store is made of: two plans with a dental and a gym benefit
\* each, and an overview built from metadata that carries no plan_name.
PassageUniverse ==
    { [text |-> "A dental", type |-> "benefit", category |-> "dental",   plan_name |-> "PlanA"],
      [text |-> "A gym",    type |-> "benefit", category |-> "wellness", plan_name |-> "PlanA"],
      [text |-> "B dental", type |-> "benefit", category |-> "dental",   plan_name |-> "PlanB"],
      [text |-> "B gym",    type |-> "benefit", category |-> "wellness", plan_name |-> "PlanB"],
      [text |-> "overview", type |-> "overview", category |-> "general"] }

Queries == {"dental?", "gym?"}

\* SentenceTransformer.encode: a deterministic map from a text to a vector.
\* Two texts may share a vector ("A gym" and "B gym"), which gives ties.
Encode(text) ==
    CASE text = "A dental" -> <<2, 0>>
      [] text = "B dental" -> <<2, 1>>
      [] text = "A gym"    -> <<0, 2>>
      [] text = "B gym"    -> <<0, 2>>
      [] text = "overview" -> <<1, 1>>
      [] text = "dental?"  -> <<2, 0>>
      [] text = "gym?"     -> <<0, 2>>
      [] OTHER             -> <<0, 0>>

\* the model BenefitRetriever.__init__ loads, whatever built the index
RetrieverModel == "all-MiniLM-L6-v2"

\* the default of EmbeddingGenerator's model_name parameter
DefaultModel == "all-MiniLM-L6-v2"

\* the sentence-transformer models a generator may be constructed with: the
\* default, one of the same dimension and one of a larger dimension
ModelNames == {"all-MiniLM-L6-v2", "paraphrase-MiniLM-L6-v2", "all-mpnet-base-v2"}

\* SentenceTransformer(model_name).encode: each model has its own map from
\* texts to vectors; Encode is the map of all-MiniLM-L6-v2
EncodeWith(model_name, text) ==
    CASE model_name = "all-MiniLM-L6-v2"        -> Encode(text)
      [] model_name = "paraphrase-MiniLM-L6-v2" -> <<Encode(text)[2], Encode(text)[1]>>
      [] model_name = "all-mpnet-base-v2"       -> Encode(text) \o <<1>>

\* model.get_sentence_embedding_dimension()
get_sentence_embedding_dimension(model_name) == Len(EncodeWith(model_name, ""))

\* generate_embeddings of a generator built with model_name
generate_embeddings_with(model_name, chunks) ==
    [i \in 1..Len(chunks) |-> EncodeWith(model_name, chunks[i].text)]

\* generate_embeddings: one vector per chunk, in chunk order
generate_embeddings(chunks) == [i \in 1..Len(chunks) |-> Encode(chunks[i].text)]

\* build_faiss_index: index.add(embeddings) gives vector i the id i (0-based)
build_faiss_index(embeddings) == embeddings

\* the L2 metric of IndexHNSWFlat: the squared distance
Distance(u, v) == (u[1] - v[1]) * (u[1] - v[1]) + (u[2] - v[2]) * (u[2] - v[2])

\* the distance FAISS stores beside a -1 label: larger than any real one
NoMatchDistance == 100

\* What index.search(q, k) may return for k >= 1: a row of k (distance, id)
\* pairs. The first m hold distinct ids in ascending order of distance (ties
\* in any order); an approximate index may find fewer than k, whichever they
\* are, and the rest of the row holds the label -1.
IndexSearch(index, qvec, k) ==
    LET n == Len(index)
        D(id) == Distance(qvec, index[id + 1])
        Found == UNION {[1..m -> 0..(n - 1)] : m \in 0..Min(k, n)}
        Good(f) == /\ \A a, b \in DOMAIN f : a < b => f[a] # f[b] /\ D(f[a]) <= D(f[b])
    IN { [i \in 1..k |-> IF i <= Len(f) THEN [distance |-> D(f[i]), idx |-> f[i]]
                         ELSE [distance |-> NoMatchDistance, idx |-> -1]]
         : f \in {g \in Found : Good(g)} }

(***************************************************************************)
(* BenefitRetriever.search                                                 *)
(***************************************************************************)
\* the oversampling factor of min(top_k * 3, len(self.chunks))
Oversample == 3

\* a faulty variant of NumCandidates: the whole store is asked for
NumCandidatesWholeStore(top_k, n) == n

\* the number of neighbours search asks the index for
NumCandidates(top_k, n) == Min(top_k * Oversample, n)

\* a faulty variant of Accepts: the category test is missing
AcceptsPlanOnly(chunk, plan_filter, category_filter) ==
    ~(Truthy(plan_filter) /\ Get(chunk, "plan_name") # plan_filter)

\* a faulty variant of Accepts: the two filters joined by "or"
AcceptsEitherFilter(chunk, plan_filter, category_filter) ==
    IF Truthy(plan_filter) /\ Truthy(category_filter)
    THEN Get(chunk, "plan_name") = plan_filter \/ Get(chunk, "category") = category_filter
    ELSE /\ ~(Truthy(plan_filter) /\ Get(chunk, "plan_name") # plan_filter)
         /\ ~(Truthy(category_filter) /\ Get(chunk, "category") # category_filter)

\* the two "continue" tests: a chunk is kept unless a truthy filter differs
Accepts(chunk, plan_filter, category_filter) ==
    /\ ~(Truthy(plan_filter) /\ Get(chunk, "plan_name") # plan_filter)
    /\ ~(Truthy(category_filter) /\ Get(chunk, "category") # category_filter)

\* a faulty variant of SimilarityScore: the sign of the conversion is lost
SimilarityScoreOnePlus(distance) == 1 + distance

\* float(1 - distance)
SimilarityScore(distance) == 1 - distance

\* a faulty variant of EnoughResults: the loop stops one result short
EnoughResultsOneShort(results, top_k) == Len(results) >= top_k - 1

\* a faulty variant of EnoughResults: an off-by-one in the stop test
EnoughResultsOffByOne(results, top_k) == Len(results) > top_k

\* if len(results) >= top_k: break
EnoughResults(results, top_k) == Len(results) >= top_k

\* a faulty variant of SearchResult: the passage id counted from 1
SearchResultIdFromOne(chunk, distance, i, idx) ==
    [similarity_score |-> SimilarityScore(distance), rank |-> i + 1, chunk_id |-> idx + 1] @@ chunk

\* chunk.copy() with the three search fields set; i is the 0-based position of
\* the candidate in the row returned by the index (enumerate's counter)
SearchResult(chunk, distance, i, idx) ==
    [similarity_score |-> SimilarityScore(distance), rank |-> i + 1, chunk_id |-> idx] @@ chunk

\* the for loop over zip(distances[0], indices[0]), from candidate i on (i is
\* 1-based here, enumerate's counter is i - 1); raised: self.chunks[idx] with
\* idx past the end of the list raises IndexError
RECURSIVE SearchFrom(_, _, _, _, _, _, _)
SearchFrom(chunks, cands, i, results, top_k, plan_filter, category_filter) ==
    IF i > Len(cands) THEN [results |-> results, raised |-> FALSE]
    ELSE IF cands[i].idx = -1
    THEN SearchFrom(chunks, cands, i + 1, results, top_k, plan_filter, category_filter)
    ELSE IF cands[i].idx >= Len(chunks) THEN [results |-> results, raised |-> TRUE]
    ELSE IF ~Accepts(chunks[cands[i].idx + 1], plan_filter, category_filter)
    THEN SearchFrom(chunks, cands, i + 1, results, top_k, plan_filter, category_filter)
    ELSE LET res == Append(results, SearchResult(chunks[cands[i].idx + 1],
                                                 cands[i].distance, i - 1, cands[i].idx))
         IN IF EnoughResults(res, top_k) THEN [results |-> res, raised |-> FALSE]
            ELSE SearchFrom(chunks, cands, i + 1, res, top_k, plan_filter, category_filter)

SearchLoop(chunks, cands, top_k, plan_filter, category_filter) ==
    SearchFrom(chunks, cands, 1, <<>>, top_k, plan_filter, category_filter)

\* index.d: the dimension of the vectors the index was built from
IndexDimension(index) == Len(index[1])

\* What index.search does with the query vector and the requested count k: a
\* query of another dimension than the index's fails the wrapper's assertion;
\* for k < 0 the call raises, for k = 0 it raises or returns an empty row
\* depending on the library version, for k >= 1 it returns one of the rows of
\* IndexSearch.
IndexSearchOutcomes(index, qvec, k) ==
    IF Len(qvec) # IndexDimension(index) THEN {[raised |-> TRUE, cands |-> <<>>]}
    ELSE IF k < 0 THEN {[raised |-> TRUE, cands |-> <<>>]}
    ELSE IF k = 0 THEN {[raised |-> TRUE, cands |-> <<>>], [raised |-> FALSE, cands |-> <<>>]}
    ELSE {[raised |-> FALSE, cands |-> c] : c \in IndexSearch(index, qvec, k)}

TopKs == (-1)..MaxTopK
PlanFilters == {None, "", "PlanA", "PlanB"}
CategoryFilters == {None, "", "dental"}

\* BenefitRetriever.search(query, top_k, plan_filter, category_filter), with
\* the row `found` that the index returned
SearchWith(query, top_k, plan_filter, category_filter, found) ==
    /\ LET loop == SearchLoop(retriever.chunks, found.cands, top_k,
                              plan_filter, category_filter)
       IN last_search' =
            [op |-> "search", query |-> query, top_k |-> top_k,
             plan_filter |-> plan_filter, category_filter |-> category_filter,
             k |-> NumCandidates(top_k, Len(retriever.chunks)),
             cands |-> found.cands,
             status |-> IF found.raised THEN "AssertionError"
                        ELSE IF loop.raised THEN "IndexError" ELSE "ok",
             results |-> IF found.raised \/ loop.raised THEN <<>> ELSE loop.results]
    /\ UNCHANGED <<last_classify, retriever, index_dir, saver, loaded>>

\* a search call on a loaded retriever, when no other call is running
Search ==
    /\ retriever.status = "ready"
    /\ last_search = NoCall
    /\ \E query \in Queries, top_k \in TopKs :
          \E found \in IndexSearchOutcomes(retriever.index, Encode(query),
                                           NumCandidates(top_k, Len(retriever.chunks))) :
              \E plan_filter \in PlanFilters, category_filter \in CategoryFilters :
                  SearchWith(query, top_k, plan_filter, category_filter, found)

\* the caller takes the returned list; the next call can start (calls are
\* synchronous and single-threaded)
Return ==
    /\ last_search # NoCall
    /\ last_search' = NoCall
    /\ UNCHANGED <<last_classify, retriever, index_dir, saver, loaded>>

\* the stores a build can produce: 1..MaxN passages
Stores == UNION {[1..n -> PassageUniverse] : n \in 1..MaxN}

\* a retriever whose __init__ read the files of one completed build
LoadedFrom(chunks) ==
    [status |-> "ready", index |-> build_faiss_index(generate_embeddings(chunks)),
     chunks |-> chunks]

NoDir == [exists |-> FALSE]

(***************************************************************************)
(* The persisted unit: save_all, a crash of the writer, the two loaders    *)
(***************************************************************************)
\* the four files of a unit, in the order save_all writes them
UnitFiles == <<"benefits.index", "chunks.pkl", "embeddings.npy", "metadata.json">>

FileNames == {UnitFiles[i] : i \in 1..Len(UnitFiles)}

Absent == [present |-> FALSE]

\* the chunk lists handed to build_search_index: they differ in length and in
\* the passage at each position
BuildInputs ==
    { <<[text |-> "A dental", type |-> "benefit", category |-> "dental", plan_name |-> "PlanA"]>>,
      <<[text |-> "B gym", type |-> "benefit", category |-> "wellness", plan_name |-> "PlanB"],
        [text |-> "B dental", type |-> "benefit", category |-> "dental", plan_name |-> "PlanB"]>>,
      <<[text |-> "overview", type |-> "overview", category |-> "general"],
        [text |-> "A gym", type |-> "benefit", category |-> "wellness", plan_name |-> "PlanA"],
        [text |-> "A dental", type |-> "benefit", category |-> "dental", plan_name |-> "PlanA"]>> }

\* the metadata dict of save_all; plans and categories are built from sets
Metadata(chunks) ==
    LET plans == {IF "plan_name" \in DOMAIN chunks[i] THEN chunks[i].plan_name ELSE "Unknown"
                  : i \in 1..Len(chunks)}
        cats  == {IF "category" \in DOMAIN chunks[i] THEN chunks[i].category ELSE "unknown"
                  : i \in 1..Len(chunks)}
    IN [total_chunks |-> Len(chunks), model_name |-> "all-MiniLM-L6-v2",
        index_type |-> "HNSW", plans |-> plans, categories |-> cats,
        total_plans |-> Cardinality(plans)]

\* a faulty variant of FileData: the chunks are pickled in reverse order
FileDataChunksReversed(name, s) ==
    CASE name = "benefits.index" -> s.index
      [] name = "chunks.pkl"     -> [i \in 1..Len(s.chunks) |-> s.chunks[Len(s.chunks) + 1 - i]]
      [] name = "embeddings.npy" -> s.embeddings
      [] name = "metadata.json"  ->
            [embedding_dimension |-> s.dimension] @@ Metadata(s.chunks)

\* what save_all writes into each file
FileData(name, s) ==
    CASE name = "benefits.index" -> s.index
      [] name = "chunks.pkl"     -> s.chunks
      [] name = "embeddings.npy" -> s.embeddings
      [] name = "metadata.json"  ->
            [embedding_dimension |-> s.dimension] @@ Metadata(s.chunks)

\* build_search_index up to the first write: the embeddings and the index are
\* computed, save_all creates the directory (mkdir, exist_ok) and is about to
\* write the first file
StartSaveWith(model_name, chunks) ==
    /\ saver.pc = "idle"
    /\ saver.builds < MaxBuilds
    /\ saver' = [pc |-> "open", file |-> 1, builds |-> saver.builds + 1,
                 model_name |-> model_name,
                 dimension |-> get_sentence_embedding_dimension(model_name),
                 chunks |-> chunks,
                 embeddings |-> generate_embeddings_with(model_name, chunks),
                 index |-> build_faiss_index(generate_embeddings_with(model_name, chunks))]
    /\ index_dir' = IF index_dir.exists THEN index_dir
                    ELSE [exists |-> TRUE, files |-> [f \in FileNames |-> Absent]]
    /\ UNCHANGED <<last_classify, retriever, last_search, loaded>>

\* build_search_index: the generator is constructed with the default model
StartSave(chunks) == StartSaveWith(DefaultModel, chunks)

\* the writer opens the next file for writing: the file exists and whatever it
\* held before is gone, its new content is not there yet
BeginWrite ==
    /\ saver.pc = "open"
    /\ index_dir' = [index_dir EXCEPT !.files[UnitFiles[saver.file]] =
                        [present |-> TRUE, complete |-> FALSE, build |-> saver.builds]]
    /\ saver' = [saver EXCEPT !.pc = "write"]
    /\ UNCHANGED <<last_classify, retriever, last_search, loaded>>

\* the write finishes and the file is closed; after the fourth file save_all
\* returns, the generator and what it was given staying as they are
FinishWrite ==
    /\ saver.pc = "write"
    /\ index_dir' = [index_dir EXCEPT !.files[UnitFiles[saver.file]] =
                        [present |-> TRUE, complete |-> TRUE, build |-> saver.builds,
                         data |-> FileData(UnitFiles[saver.file], saver)]]
    /\ saver' = IF saver.file < Len(UnitFiles)
                THEN [saver EXCEPT !.pc = "open", !.file = saver.file + 1]
                ELSE [saver EXCEPT !.pc = "idle"]
    /\ UNCHANGED <<last_classify, retriever, last_search, loaded>>

\* the writing process dies between or during the writes; the files stay as
\* they are
Crash ==
    /\ saver.pc \in {"open", "write"}
    /\ saver' = [pc |-> "idle", builds |-> saver.builds]
    /\ UNCHANGED <<last_classify, retriever, last_search, index_dir, loaded>>

\* faiss.read_index(path): RuntimeError when the file cannot be opened or read
ReadIndex(dir) ==
    IF ~dir.exists \/ ~dir.files["benefits.index"].present
       \/ ~dir.files["benefits.index"].complete
    THEN [raised |-> TRUE, error |-> "RuntimeError"]
    ELSE [raised |-> FALSE, value |-> dir.files["benefits.index"].data]

\* open(path, 'rb') and pickle.load: FileNotFoundError for a missing file,
\* EOFError when the pickle stops short
ReadChunks(dir) ==
    IF ~dir.exists \/ ~dir.files["chunks.pkl"].present
    THEN [raised |-> TRUE, error |-> "FileNotFoundError"]
    ELSE IF ~dir.files["chunks.pkl"].complete
    THEN [raised |-> TRUE, error |-> "EOFError"]
    ELSE [raised |-> FALSE, value |-> dir.files["chunks.pkl"].data]

\* np.load(path): FileNotFoundError for a missing file, ValueError when the
\* array stops short
ReadEmbeddings(dir) ==
    IF ~dir.exists \/ ~dir.files["embeddings.npy"].present
    THEN [raised |-> TRUE, error |-> "FileNotFoundError"]
    ELSE IF ~dir.files["embeddings.npy"].complete
    THEN [raised |-> TRUE, error |-> "ValueError"]
    ELSE [raised |-> FALSE, value |-> dir.files["embeddings.npy"].data]

\* BenefitRetriever.__init__: the directory test, then the index, then the
\* chunks; embeddings.npy and metadata.json are not read
RetrieverOutcome(dir) ==
    IF ~dir.exists THEN [status |-> "failed", error |-> "FileNotFoundError"]
    ELSE IF ReadIndex(dir).raised
    THEN [status |-> "failed", error |-> ReadIndex(dir).error]
    ELSE IF ReadChunks(dir).raised
    THEN [status |-> "failed", error |-> ReadChunks(dir).error]
    ELSE [status |-> "ready", index |-> ReadIndex(dir).value,
          chunks |-> ReadChunks(dir).value]

\* EmbeddingGenerator.load_all: the index, the chunks, the embeddings, with no
\* directory test; metadata.json is not read
LoadAllOutcome(dir) ==
    IF ReadIndex(dir).raised
    THEN [op |-> "load_all", status |-> "failed", error |-> ReadIndex(dir).error]
    ELSE IF ReadChunks(dir).raised
    THEN [op |-> "load_all", status |-> "failed", error |-> ReadChunks(dir).error]
    ELSE IF ReadEmbeddings(dir).raised
    THEN [op |-> "load_all", status |-> "failed", error |-> ReadEmbeddings(dir).error]
    ELSE [op |-> "load_all", status |-> "ok", index |-> ReadIndex(dir).value,
          chunks |-> ReadChunks(dir).value, embeddings |-> ReadEmbeddings(dir).value]

\* a BenefitRetriever is constructed over the location; no build is running
\* (index construction does not run beside queries on the same location)
RetrieverInit ==
    /\ saver.pc = "idle"
    /\ retriever' = RetrieverOutcome(index_dir)
    /\ UNCHANGED <<last_classify, last_search, index_dir, saver, loaded>>

\* load_all is called on the location; no build is running
LoadAll ==
    /\ saver.pc = "idle"
    /\ loaded' = LoadAllOutcome(index_dir)
    /\ UNCHANGED <<last_classify, retriever, last_search, index_dir, saver>>

(***************************************************************************)
(* Specifications                                                          *)
(***************************************************************************)
Unloaded == [status |-> "unloaded"]

InitClassify ==
    /\ last_classify = NoCall
    /\ retriever = Unloaded
    /\ last_search = NoCall
    /\ index_dir = NoDir
    /\ saver = [pc |-> "idle", builds |-> 0]
    /\ loaded = NoCall

NextClassify == (\E text \in ClassifyTexts : Classify(text)) \/ ClassifyReturn

SpecClassify == InitClassify /\ [][NextClassify]_vars

InitSearch ==
    /\ last_classify = NoCall
    /\ retriever \in {LoadedFrom(chunks) : chunks \in Stores}
    /\ last_search = NoCall
    /\ index_dir = NoDir
    /\ saver = [pc |-> "idle", builds |-> 0]
    /\ loaded = NoCall

NextSearch == Search \/ Return

SpecSearch == InitSearch /\ [][NextSearch]_vars

InitPersist ==
    /\ last_classify = NoCall
    /\ retriever = Unloaded
    /\ last_search = NoCall
    /\ index_dir = NoDir
    /\ saver = [pc |-> "idle", builds |-> 0]
    /\ loaded = NoCall

NextPersist ==
    \/ \E chunks \in BuildInputs : StartSave(chunks)
    \/ BeginWrite
    \/ FinishWrite
    \/ Crash
    \/ RetrieverInit
    \/ LoadAll

SpecPersist == InitPersist /\ [][NextPersist]_vars

(***************************************************************************)
(* Properties of search (checked under SpecSearch)                         *)
(***************************************************************************)
Searched == last_search.op = "search"

Returned == Searched /\ last_search.status = "ok"

\* the candidates of the last call that carry a real passage id
RealCandidates == SelectSeq(last_search.cands, LAMBDA c : c.idx # -1)

\* the passage of the store that a candidate names
PassageOf(c) == retriever.chunks[c.idx + 1]

\* a passage satisfies the filters that are supplied, a filter being supplied
\* when it is a non-empty string: exact match on each, both when both are given
SatisfiesFilters(passage) ==
    /\ Truthy(last_search.plan_filter) =>
          "plan_name" \in DOMAIN passage /\ passage.plan_name = last_search.plan_filter
    /\ Truthy(last_search.category_filter) =>
          "category" \in DOMAIN passage /\ passage.category = last_search.category_filter

\* the candidates that survive the filters, in the index's return order
Survivors == SelectSeq(RealCandidates, LAMBDA c : SatisfiesFilters(PassageOf(c)))

\* C1, as stated: whenever a plan_filter p and/or a category_filter c is
\* given, whatever string it is, every returned result has plan_name = p and
\* category = c.
C1_FilterCorrectnessAnyString ==
    Returned =>
        \A j \in 1..Len(last_search.results) :
            /\ last_search.plan_filter # None =>
                  Get(last_search.results[j], "plan_name") = last_search.plan_filter
            /\ last_search.category_filter # None =>
                  Get(last_search.results[j], "category") = last_search.category_filter

\* C1, amended: whenever a non-empty plan_filter p and/or a non-empty
\* category_filter c is given, every returned result has plan_name = p and
\* category = c (both when both are given); an empty string filters nothing.
C1_FilterCorrectnessNonEmpty ==
    Returned =>
        \A j \in 1..Len(last_search.results) :
            /\ Truthy(last_search.plan_filter) =>
                  Get(last_search.results[j], "plan_name") = last_search.plan_filter
            /\ Truthy(last_search.category_filter) =>
                  Get(last_search.results[j], "category") = last_search.category_filter

\* both filters are given, a result comes back and a candidate was rejected
C1_Witness ==
    /\ Returned
    /\ Truthy(last_search.plan_filter) /\ Truthy(last_search.category_filter)
    /\ Len(last_search.results) >= 1
    /\ Len(RealCandidates) > Len(Survivors)

\* C2: the list returned by search is never longer than top_k.
C2_LengthAtMostTopK == Returned => Len(last_search.results) <= last_search.top_k

\* the loop stopped at top_k results with a further surviving candidate left
C2_Witness ==
    /\ Returned
    /\ last_search.top_k >= 1
    /\ Len(last_search.results) = last_search.top_k
    /\ Len(Survivors) > last_search.top_k

\* C3: the similarity scores of the returned list never increase from one
\* result to the next.
C3_ScoresNonIncreasing ==
    Returned =>
        \A j \in 1..(Len(last_search.results) - 1) :
            last_search.results[j].similarity_score
                >= last_search.results[j + 1].similarity_score

\* two results with different scores, with a rejected candidate among the row
C3_Witness ==
    /\ Returned
    /\ Len(last_search.results) >= 2
    /\ last_search.results[1].similarity_score > last_search.results[2].similarity_score
    /\ Len(RealCandidates) > Len(Survivors)

\* C4: the j-th element of the returned list has rank j.
C4_RankIsAcceptedPosition ==
    Returned => \A j \in 1..Len(last_search.results) : last_search.results[j].rank = j

\* C5: when fewer than top_k candidates survive the filters, search returns
\* (without raising) exactly the surviving candidates, in order, each with the
\* fields of its passage in the store, and nothing else.
C5_ShortfallReturnsSurvivors ==
    (Searched /\ Len(Survivors) < last_search.top_k) =>
        /\ last_search.status = "ok"
        /\ Len(last_search.results) = Len(Survivors)
        /\ \A j \in 1..Len(Survivors) :
              /\ last_search.results[j].chunk_id = Survivors[j].idx
              /\ \A field \in DOMAIN PassageOf(Survivors[j]) :
                    last_search.results[j][field] = PassageOf(Survivors[j])[field]

\* a filter is given, fewer than top_k candidates survive it, some do and some
\* do not
C5_Witness ==
    /\ Returned
    /\ Truthy(last_search.plan_filter) \/ Truthy(last_search.category_filter)
    /\ Len(Survivors) >= 1
    /\ Len(Survivors) < last_search.top_k
    /\ Len(RealCandidates) > Len(Survivors)
    /\ Len(last_search.results) = Len(Survivors)

\* no candidate survives the filters and the call returns the empty list
C5_EmptyResultReached ==
    /\ Returned
    /\ last_search.top_k >= 1
    /\ Len(RealCandidates) >= 1
    /\ Survivors = <<>>
    /\ last_search.results = <<>>

(***************************************************************************)
(* Properties of _classify (checked under SpecClassify)                    *)
(***************************************************************************)
Classified == last_classify.op = "classify"

\* the phrases of category c that occur in the text, each once
PhrasesFound(c, text) ==
    {kw \in {categories[c].keywords[j] : j \in 1..Len(categories[c].keywords)} :
        Contains(text, kw)}

\* the largest number of phrases any category finds in the text
BestCount(text) ==
    CHOOSE m \in 0..6 :
        /\ \E c \in 1..Len(categories) : Cardinality(PhrasesFound(c, text)) = m
        /\ \A c \in 1..Len(categories) : Cardinality(PhrasesFound(c, text)) <= m

\* C6: a text with a keyword match is given the category with the most phrases
\* found, the earliest defined among those with the most; a text whose only
\* keywords are "gym" and "wellness" is given wellness.
C6_MaxScoreEarliestWins ==
    (Classified /\ BestCount(last_classify.text) > 0) =>
        /\ \E c \in 1..Len(categories) :
              /\ last_classify.category = categories[c].name
              /\ Cardinality(PhrasesFound(c, last_classify.text))
                    = BestCount(last_classify.text)
              /\ \A e \in 1..(c - 1) :
                    Cardinality(PhrasesFound(e, last_classify.text))
                        < BestCount(last_classify.text)
        /\ last_classify.text \in {"gym wellness", "wellness gym"} =>
              last_classify.category = "wellness"

\* two categories tie at the largest count and the earlier one is returned
C6_Witness ==
    /\ Classified
    /\ BestCount(last_classify.text) > 0
    /\ \E c, e \in 1..Len(categories) :
          /\ c < e
          /\ Cardinality(PhrasesFound(c, last_classify.text)) = BestCount(last_classify.text)
          /\ Cardinality(PhrasesFound(e, last_classify.text)) = BestCount(last_classify.text)
          /\ last_classify.category = categories[c].name

\* the text of the example is classified as wellness, although "wellness" is a
\* phrase of preventive too
C6_GymWellnessReached ==
    /\ Classified
    /\ last_classify.text = "gym wellness"
    /\ last_classify.category = "wellness"
    /\ Cardinality(PhrasesFound(1, last_classify.text)) = 1

\* C7: _classify returns general exactly when no phrase of any of the 17
\* categories occurs in the text, and the name of one of the 17 otherwise.
C7_GeneralIffNoKeyword ==
    Classified =>
        /\ Len(categories) = 17
        /\ last_classify.category = "general"
              <=> \A c \in 1..Len(categories) : PhrasesFound(c, last_classify.text) = {}
        /\ last_classify.category # "general" =>
              \E c \in 1..Len(categories) : last_classify.category = categories[c].name

\* a non-empty text without any phrase is classified as general
C7_Witness ==
    /\ Classified
    /\ last_classify.text # ""
    /\ last_classify.category = "general"

\* a text with a single phrase found is given a category of the mapping
C7_SingleMatchReached ==
    /\ Classified
    /\ BestCount(last_classify.text) = 1
    /\ last_classify.category # "general"

(***************************************************************************)
(* Properties of the persisted unit (checked under SpecPersist)            *)
(***************************************************************************)
\* the location exists and holds all four files of a unit
HoldsAllFiles(dir) == dir.exists /\ \A f \in FileNames : dir.files[f].present

\* the four files are all there, fully written, by one and the same build
CoherentUnit(dir) ==
    /\ HoldsAllFiles(dir)
    /\ \A f \in FileNames : dir.files[f].complete
    /\ \A f, g \in FileNames : dir.files[f].build = dir.files[g].build

\* C8: a load (BenefitRetriever.__init__ or load_all) from a location that
\* does not exist or lacks one of the unit's files fails. (The claim asks for
\* one error kind as well; already the failure itself is not guaranteed.)
C8_LoadOfIncompleteLocationFails ==
    [][ /\ (retriever' # retriever /\ ~HoldsAllFiles(index_dir)) =>
              retriever'.status = "failed"
        /\ (loaded' # loaded /\ ~HoldsAllFiles(index_dir)) =>
              loaded'.status = "failed" ]_vars

\* C9: once save_all has stopped, whether it returned or crashed, a location
\* that a loader accepts holds four complete files of one build.
C9_PersistIsAtomic ==
    (saver.pc = "idle"
        /\ (RetrieverOutcome(index_dir).status = "ready"
              \/ LoadAllOutcome(index_dir).status = "ok"))
    => CoherentUnit(index_dir)

\* C10: a retriever that serves queries holds as many index vectors as
\* passages, and index entry i is the vector of passage i.
C10_IndexMatchesPassages ==
    retriever.status = "ready" =>
        /\ Len(retriever.index) = Len(retriever.chunks)
        /\ \A i \in 1..Len(retriever.chunks) :
              retriever.index[i] = Encode(retriever.chunks[i].text)


(***************************************************************************)
(* Totality of the query operations (checked under SpecSearch)             *)
(***************************************************************************)
\* C14: search is total: for every query, every integer top_k, every filter
\* and every store the call returns a result and raises nothing. (top_k = 0
\* is left out: whether index.search accepts k = 0 depends on the FAISS
\* release.)
C14_SearchIsTotal ==
    (Searched /\ last_search.top_k # 0) => last_search.status = "ok"


(***************************************************************************)
(* The store operations of the retriever: get_plan_overview, list_plans,   *)
(* list_categories, get_statistics                                         *)
(***************************************************************************)
\* The passages of the stores these operations are run on: those of
\* PassageUniverse, overviews that carry a plan name (two different ones for
\* PlanA), and a passage with neither plan_name nor category.
OpsUniverse ==
    PassageUniverse \cup
    { [text |-> "A overview", type |-> "overview", category |-> "general", plan_name |-> "PlanA"],
      [text |-> "A summary",  type |-> "overview", category |-> "general", plan_name |-> "PlanA"],
      [text |-> "B overview", type |-> "overview", category |-> "general", plan_name |-> "PlanB"],
      [text |-> "bare",       type |-> "benefit"] }

OpsStores == UNION {[1..n -> OpsUniverse] : n \in 1..MaxN}

\* the plan names get_plan_overview is asked for; PlanC is on no passage
PlanNames == {"PlanA", "PlanB", "PlanC", ""}

\* Python's order on the strings that occur as plan names and categories:
\* code point order, upper case before lower case
StrOrder == <<"PlanA", "PlanB", "Unknown", "dental", "general", "unknown", "wellness">>

StrRank(s) == CHOOSE i \in 1..Len(StrOrder) : StrOrder[i] = s

StrLess(s, t) == StrRank(s) < StrRank(t)

RECURSIVE sortedDescending(_)
\* a faulty variant of sorted: descending order
sortedDescending(S) ==
    IF S = {} THEN <<>>
    ELSE LET m == CHOOSE x \in S : \A y \in S : ~StrLess(x, y)
         IN  <<m>> \o sortedDescending(S \ {m})

RECURSIVE sorted(_)
\* sorted(list(S)) for a set S of strings
sorted(S) ==
    IF S = {} THEN <<>>
    ELSE LET m == CHOOSE x \in S : \A y \in S : ~StrLess(y, x)
         IN  <<m>> \o sorted(S \ {m})

\* list_plans: the plan names of the chunks that have one, sorted
list_plans(chunks) ==
    sorted({chunks[i].plan_name : i \in {j \in 1..Len(chunks) : "plan_name" \in DOMAIN chunks[j]}})

\* list_categories: the categories of the chunks that have one, sorted
list_categories(chunks) ==
    sorted({chunks[i].category : i \in {j \in 1..Len(chunks) : "category" \in DOMAIN chunks[j]}})

\* chunk.get(key, default)
GetOr(d, key, default) == IF key \in DOMAIN d THEN d[key] ELSE default

\* the counting loops of get_statistics: key -> number of chunks with that
\* value of the field, a chunk without the field counting under the default
CountBy(chunks, key, default) ==
    [v \in {GetOr(chunks[i], key, default) : i \in 1..Len(chunks)} |->
        Cardinality({i \in 1..Len(chunks) : GetOr(chunks[i], key, default) = v})]

\* a faulty variant of get_statistics: the plans are counted as save_all's
\* metadata counts them, chunks without a plan name making a plan "Unknown"
get_statisticsCountingUnknown(chunks) ==
    [total_chunks |-> Len(chunks),
     total_plans |-> Cardinality(DOMAIN CountBy(chunks, "plan_name", "Unknown")),
     plans |-> list_plans(chunks),
     categories |-> list_categories(chunks),
     chunks_by_plan |-> CountBy(chunks, "plan_name", "Unknown"),
     chunks_by_category |-> CountBy(chunks, "category", "unknown")]

get_statistics(chunks) ==
    [total_chunks |-> Len(chunks),
     total_plans |-> Len(list_plans(chunks)),
     plans |-> list_plans(chunks),
     categories |-> list_categories(chunks),
     chunks_by_plan |-> CountBy(chunks, "plan_name", "Unknown"),
     chunks_by_category |-> CountBy(chunks, "category", "unknown")]

\* the None that get_plan_overview returns in place of a chunk
NoChunk == [type |-> "NoneType"]

\* the positions of the chunks that get_plan_overview's test accepts
OverviewPositions(chunks, plan_name) ==
    {i \in 1..Len(chunks) : Get(chunks[i], "plan_name") = plan_name
                            /\ Get(chunks[i], "type") = "overview"}

\* a faulty variant of get_plan_overview: the last match instead of the first
get_plan_overviewLastMatch(chunks, plan_name) ==
    LET hits == OverviewPositions(chunks, plan_name)
    IN  IF hits = {} THEN NoChunk
        ELSE chunks[CHOOSE i \in hits : \A j \in hits : j <= i]

\* get_plan_overview: the loop returns at the first chunk that passes the
\* test, None when the loop runs out
get_plan_overview(chunks, plan_name) ==
    LET hits == OverviewPositions(chunks, plan_name)
    IN  IF hits = {} THEN NoChunk
        ELSE chunks[CHOOSE i \in hits : \A j \in hits : i <= j]

GetPlanOverview(plan_name) ==
    /\ retriever.status = "ready"
    /\ last_search = NoCall
    /\ last_search' = [op |-> "get_plan_overview", plan_name |-> plan_name,
                       result |-> get_plan_overview(retriever.chunks, plan_name)]
    /\ UNCHANGED <<last_classify, retriever, index_dir, saver, loaded>>

ListPlans ==
    /\ retriever.status = "ready"
    /\ last_search = NoCall
    /\ last_search' = [op |-> "list_plans", result |-> list_plans(retriever.chunks)]
    /\ UNCHANGED <<last_classify, retriever, index_dir, saver, loaded>>

ListCategories ==
    /\ retriever.status = "ready"
    /\ last_search = NoCall
    /\ last_search' = [op |-> "list_categories",
                       result |-> list_categories(retriever.chunks)]
    /\ UNCHANGED <<last_classify, retriever, index_dir, saver, loaded>>

GetStatistics ==
    /\ retriever.status = "ready"
    /\ last_search = NoCall
    /\ last_search' = [op |-> "get_statistics",
                       result |-> get_statistics(retriever.chunks)]
    /\ UNCHANGED <<last_classify, retriever, index_dir, saver, loaded>>

InitOps ==
    /\ last_classify = NoCall
    /\ retriever \in {LoadedFrom(chunks) : chunks \in OpsStores}
    /\ last_search = NoCall
    /\ index_dir = NoDir
    /\ saver = [pc |-> "idle", builds |-> 0]
    /\ loaded = NoCall

NextOps ==
    \/ \E plan_name \in PlanNames : GetPlanOverview(plan_name)
    \/ ListPlans
    \/ ListCategories
    \/ GetStatistics
    \/ Return

SpecOps == InitOps /\ [][NextOps]_vars


(***************************************************************************)
(* Properties of the store operations (checked under SpecOps)              *)
(***************************************************************************)
\* the plan names, and the categories, that occur on a passage of the store
PlansInStore ==
    {retriever.chunks[i].plan_name :
        i \in {j \in 1..Len(retriever.chunks) : "plan_name" \in DOMAIN retriever.chunks[j]}}

CategoriesInStore ==
    {retriever.chunks[i].category :
        i \in {j \in 1..Len(retriever.chunks) : "category" \in DOMAIN retriever.chunks[j]}}

\* a list of strings is strictly ascending in Python's string order
StrictlyAscending(list) ==
    \A i \in 1..(Len(list) - 1) : StrLess(list[i], list[i + 1])

Elements(list) == {list[i] : i \in 1..Len(list)}

\* C18: get_statistics returns total_chunks = the number of passages of the
\* store, total_plans = the number of distinct plan names in the store, and
\* categories with one entry per distinct category in the store.
C18_StatisticsCountStore ==
    last_search.op = "get_statistics" =>
        /\ last_search.result.total_chunks = Len(retriever.chunks)
        /\ last_search.result.total_plans = Cardinality(PlansInStore)
        /\ Len(last_search.result.categories) = Cardinality(CategoriesInStore)
        /\ Elements(last_search.result.categories) = CategoriesInStore

\* get_statistics has run on a store of three passages, two of one plan and
\* one without a plan name, with two distinct categories
C18_Witness ==
    /\ last_search.op = "get_statistics"
    /\ Len(retriever.chunks) = 3
    /\ \E i \in 1..3 : "plan_name" \notin DOMAIN retriever.chunks[i]
    /\ last_search.result.total_plans = 1
    /\ Len(last_search.result.categories) = 2

\* the positions of the overview passages of the plan that was asked for
MatchingOverviews ==
    {i \in 1..Len(retriever.chunks) :
        /\ "type" \in DOMAIN retriever.chunks[i]
        /\ retriever.chunks[i].type = "overview"
        /\ "plan_name" \in DOMAIN retriever.chunks[i]
        /\ retriever.chunks[i].plan_name = last_search.plan_name}

\* C19: get_plan_overview(plan_name) returns the first passage, in store
\* order, whose type is overview and whose plan_name is the argument, and
\* returns none exactly when the store holds no such passage.
C19_FirstMatchingOverview ==
    last_search.op = "get_plan_overview" =>
        /\ MatchingOverviews = {} <=> last_search.result = NoChunk
        /\ \A i \in MatchingOverviews :
              (\A j \in MatchingOverviews : i <= j) =>
                  last_search.result = retriever.chunks[i]

\* the store holds two different overviews of the plan asked for, after a
\* passage that is no match, and the call has returned
C19_Witness ==
    /\ last_search.op = "get_plan_overview"
    /\ \E i, j \in MatchingOverviews :
          /\ 1 < i /\ i < j
          /\ retriever.chunks[i] # retriever.chunks[j]
          /\ last_search.result = retriever.chunks[i]

\* the store holds passages of the plan asked for, none of them an overview,
\* and the call has returned none
C19_NoneReached ==
    /\ last_search.op = "get_plan_overview"
    /\ last_search.plan_name \in PlansInStore
    /\ last_search.result = NoChunk

\* C20: list_plans and list_categories each return a strictly ascending list
\* that holds exactly the plan names, respectively the categories, occurring
\* on at least one passage of the store.
C20_ListsSortedAndExact ==
    /\ last_search.op = "list_plans" =>
          /\ StrictlyAscending(last_search.result)
          /\ Elements(last_search.result) = PlansInStore
    /\ last_search.op = "list_categories" =>
          /\ StrictlyAscending(last_search.result)
          /\ Elements(last_search.result) = CategoriesInStore

\* list_plans has run on a store in which a PlanB passage comes before the
\* PlanA passages, PlanA occurring twice
C20_Witness ==
    /\ last_search.op = "list_plans"
    /\ Len(retriever.chunks) = 3
    /\ Get(retriever.chunks[1], "plan_name") = "PlanB"
    /\ Get(retriever.chunks[2], "plan_name") = "PlanA"
    /\ Get(retriever.chunks[3], "plan_name") = "PlanA"
    /\ last_search.result = <<"PlanA", "PlanB">>

\* list_categories has run on a store with a passage that has no category
C20_CategoriesReached ==
    /\ last_search.op = "list_categories"
    /\ \E i \in 1..Len(retriever.chunks) : "category" \notin DOMAIN retriever.chunks[i]
    /\ Len(last_search.result) = 2


(***************************************************************************)
(* The embedding model at build time and at query time                     *)
(***************************************************************************)
\* a generator constructed with model_name builds the index of a location
\* that holds none yet
BuildWith(model_name, chunks) ==
    /\ index_dir = NoDir
    /\ StartSaveWith(model_name, chunks)

InitModel ==
    /\ last_classify = NoCall
    /\ retriever = Unloaded
    /\ last_search = NoCall
    /\ index_dir = NoDir
    /\ saver = [pc |-> "idle", builds |-> 0]
    /\ loaded = NoCall

NextModel ==
    \/ \E model_name \in ModelNames, chunks \in BuildInputs : BuildWith(model_name, chunks)
    \/ BeginWrite
    \/ FinishWrite
    \/ RetrieverInit
    \/ Search
    \/ Return

SpecModel == InitModel /\ [][NextModel]_vars

(***************************************************************************)
(* Properties of the embedding model (checked under SpecModel)             *)
(***************************************************************************)
\* the model that produced the passage vectors of the unit the retriever
\* loaded: the one the generator of the build was constructed with
BuildModel == saver.model_name

\* the embedding_dimension written to metadata.json by the build
PersistedDimension == index_dir.files["metadata.json"].data.embedding_dimension

\* C11: whatever model the index was built with, a query is embedded with
\* that same model.
C11_QueryModelIsBuildModel ==
    Searched => RetrieverModel = BuildModel

\* C12: a query-time model whose dimension differs from the persisted
\* embedding_dimension is rejected, and no search returns scores computed
\* with a model other than the one of the build. (The claim asks for the
\* error ModelMismatch; here any raised error counts as the rejection.)
C12_MismatchedModelRejected ==
    /\ (Searched /\ get_sentence_embedding_dimension(RetrieverModel) # PersistedDimension)
          => last_search.status # "ok"
    /\ (Returned /\ last_search.results # <<>>) => RetrieverModel = BuildModel


(***************************************************************************)
(* Round trip of the persisted unit (checked under SpecPersist)            *)
(***************************************************************************)
\* the last save_all ran to its end: the generator still holds what it wrote
SaveReturned == saver.pc = "idle" /\ "chunks" \in DOMAIN saver

\* embeddings.shape: rows and columns of the vector matrix
Shape(embeddings) == <<Len(embeddings), Len(embeddings[1])>>

\* the summary that save_all computed from its arguments
WrittenSummary == [embedding_dimension |-> saver.dimension] @@ Metadata(saver.chunks)

\* what a load_all reproduces of the unit that save_all was given: the
\* passages in their order, the shape of the vector matrix, and the summary
\* found at the location, which also agrees with the loaded passages and
\* vectors
Reproduced(l, dir) ==
    /\ l.status = "ok"
    /\ Len(l.chunks) = Len(saver.chunks)
    /\ \A i \in 1..Len(l.chunks) : l.chunks[i] = saver.chunks[i]
    /\ Shape(l.embeddings) = Shape(saver.embeddings)
    /\ dir.files["metadata.json"].data = WrittenSummary
    /\ dir.files["metadata.json"].data.total_chunks = Len(l.chunks)
    /\ dir.files["metadata.json"].data.embedding_dimension = Shape(l.embeddings)[2]

Lower(s) ==
    CASE s = "Dental"             -> "dental"
      [] s = "Gym"                -> "gym"
      [] s = "Cleanings covered"  -> "cleanings covered"
      [] s = "Fitness membership" -> "fitness membership"
      [] OTHER                    -> s

\* the 'metadata' objects of the extracted files: one with a plan name, one
\* without, and one that has a key 'category' of its own
FileMetadata ==
    { [plan_name |-> "PlanA", provider |-> "Acme", plan_type |-> "HMO", monthly_premium |-> 0],
      [provider |-> "Acme", deductible |-> 500],
      [plan_name |-> "PlanB", provider |-> "Acme", category |-> "Medicare Advantage"] }

\* the records of a 'benefits' list: two well-formed ones, one without
\* 'description', one without 'service'
BenefitRecords ==
    { [service |-> "Dental", description |-> "Cleanings covered"],
      [service |-> "Gym", description |-> "Fitness membership"],
      [service |-> "Dental"],
      [description |-> "Fitness membership"] }

\* the longest 'benefits' list of a file
MaxBenefits == 2

\* the extracted files: metadata with a list of benefit records, or with no
\* 'benefits' key at all
JsonFiles ==
    {[metadata |-> m] : m \in FileMetadata} \cup
    {[metadata |-> m, benefits |-> b] :
        m \in FileMetadata, b \in UNION {[1..n -> BenefitRecords] : n \in 0..MaxBenefits}}

\* what glob finds in the input directory: no file, one file or two files
FileLists == {<<>>} \cup {<<f>> : f \in JsonFiles} \cup {<<f, g>> : f, g \in JsonFiles}

\* _create_overview: the text parts in order, then the chunk; the keys of the
\* metadata come last in the dict display and win
create_overview(metadata) ==
    LET plan     == GetOr(metadata, "plan_name", "This plan")
        provider == GetOr(metadata, "provider", "")
        p1 == plan \o " is offered by " \o provider \o "."
        p2 == IF "plan_type" \in DOMAIN metadata
              THEN " This is a " \o metadata.plan_type \o " plan." ELSE ""
        p3 == IF "monthly_premium" \in DOMAIN metadata
              THEN IF metadata.monthly_premium = 0
                   THEN " This plan has no monthly premium ($0)."
                   ELSE " The monthly premium is $" \o ToString(metadata.monthly_premium) \o "."
              ELSE ""
        p4 == IF "deductible" \in DOMAIN metadata
              THEN IF metadata.deductible = 0
                   THEN " This plan has no deductible ($0)."
                   ELSE " The annual deductible is $" \o ToString(metadata.deductible) \o "."
              ELSE ""
    IN  metadata @@ [text |-> p1 \o p2 \o p3 \o p4, type |-> "overview",
                     category |-> "general"]

\* _create_benefit_chunk: benefit['service'] and benefit['description'] raise
\* KeyError when the record lacks the key; otherwise the chunk
create_benefit_chunk(benefit, metadata) ==
    IF "service" \notin DOMAIN benefit \/ "description" \notin DOMAIN benefit
    THEN [raised |-> TRUE, error |-> "KeyError"]
    ELSE LET service     == benefit.service
             description == benefit.description
             text == IF "plan_name" \in DOMAIN metadata
                     THEN "Under the " \o metadata.plan_name \o ", for "
                          \o Lower(service) \o ": " \o Lower(description)
                     ELSE "For " \o service \o ": " \o description
             category == classify(Lower(service) \o " " \o Lower(description))
         IN  [raised |-> FALSE,
              value |-> metadata @@ [text |-> text, service |-> service,
                                     description |-> description, type |-> "benefit",
                                     category |-> category]]

RECURSIVE BenefitChunksFrom(_, _, _, _)
\* the for loop of chunk_file from benefit i on, chunks being the list so far:
\* an exception of _create_benefit_chunk leaves the loop and the function
BenefitChunksFrom(benefits, metadata, i, chunks) ==
    IF i > Len(benefits) THEN [raised |-> FALSE, value |-> chunks]
    ELSE LET made == create_benefit_chunk(benefits[i], metadata)
         IN  IF made.raised THEN made
             ELSE BenefitChunksFrom(benefits, metadata, i + 1, Append(chunks, made.value))

\* chunk_file on the parsed file: the overview, then one chunk per benefit of
\* data.get('benefits', [])
chunk_file(data) ==
    BenefitChunksFrom(GetOr(data, "benefits", <<>>), data.metadata, 1,
                      <<create_overview(data.metadata)>>)

RECURSIVE ProcessFrom(_, _, _)
\* the for loop of process_all from file i on: an exception of chunk_file
\* leaves process_all before anything is written
ProcessFrom(files, i, all_chunks) ==
    IF i > Len(files) THEN [raised |-> FALSE, value |-> all_chunks]
    ELSE LET made == chunk_file(files[i])
         IN  IF made.raised THEN made
             ELSE ProcessFrom(files, i + 1, all_chunks \o made.value)

\* process_all: no file gives the empty list at once; otherwise the chunks of
\* all files, written to all_chunks.json and returned
process_all(files) ==
    IF files = <<>> THEN [raised |-> FALSE, value |-> <<>>]
    ELSE ProcessFrom(files, 1, <<>>)

\* a chunk_file call on one file
ChunkFile(data) ==
    /\ last_classify = NoCall
    /\ last_classify' = [op |-> "chunk_file", data |-> data, outcome |-> chunk_file(data)]
    /\ UNCHANGED <<retriever, last_search, index_dir, saver, loaded>>

\* a process_all call on the files of the input directory
ProcessAll(files) ==
    /\ last_classify = NoCall
    /\ last_classify' = [op |-> "process_all", files |-> files,
                         outcome |-> process_all(files)]
    /\ UNCHANGED <<retriever, last_search, index_dir, saver, loaded>>

NextChunk ==
    \/ \E data \in JsonFiles : ChunkFile(data)
    \/ \E files \in FileLists : ProcessAll(files)
    \/ ClassifyReturn

SpecChunk == InitClassify /\ [][NextChunk]_vars


(***************************************************************************)
(* Properties of the chunker (checked under SpecChunk)                     *)
(***************************************************************************)
\* a benefit record has both required fields
WellFormed(benefit) == "service" \in DOMAIN benefit /\ "description" \in DOMAIN benefit

\* the passages of one file when a malformed record costs only its own
\* passage: the overview and one passage per well-formed record, in order
PassagesOfFile(data) ==
    LET good == SelectSeq(GetOr(data, "benefits", <<>>), WellFormed)
    IN  <<create_overview(data.metadata)>> \o
        [i \in 1..Len(good) |-> create_benefit_chunk(good[i], data.metadata).value]

RECURSIVE PassagesOfFiles(_)
PassagesOfFiles(files) ==
    IF files = <<>> THEN <<>>
    ELSE PassagesOfFile(Head(files)) \o PassagesOfFiles(Tail(files))

\* C13: a benefit record without 'service' or 'description' costs only its
\* own passage: the build is not aborted and all other passages of the same
\* file and of the other files are produced.
C13_MalformedRecordRejectedAlone ==
    last_classify.op = "process_all" =>
        /\ ~last_classify.outcome.raised
        /\ last_classify.outcome.value = PassagesOfFiles(last_classify.files)


(***************************************************************************)
(* compare_plans                                                           *)
(***************************************************************************)
\* the top_k that compare_plans passes to search
CompareTopK == 3

\* what one search call returns or raises, given the row that the index
\* returned to it
SearchOutcome(chunks, top_k, plan_filter, category_filter, found) ==
    LET loop == SearchLoop(chunks, found.cands, top_k, plan_filter, category_filter)
    IN  [status |-> IF found.raised THEN "AssertionError"
                    ELSE IF loop.raised THEN "IndexError" ELSE "ok",
         results |-> IF found.raised \/ loop.raised THEN <<>> ELSE loop.results]

\* a faulty variant of compare_plans: the searches run without the plan filter
compare_plansUnfiltered(chunks, query, plan_names, founds) ==
    LET out(i) == SearchOutcome(chunks, CompareTopK, None, None, founds[i])
        failed == {i \in 1..Len(plan_names) : out(i).status # "ok"}
    IN  IF failed # {}
        THEN [status |-> out(CHOOSE i \in failed : \A j \in failed : i <= j).status]
        ELSE [status |-> "ok",
              query |-> query,
              comparison |->
                 [p \in {plan_names[i] : i \in 1..Len(plan_names)} |->
                    out(CHOOSE i \in 1..Len(plan_names) :
                           /\ plan_names[i] = p
                           /\ \A j \in 1..Len(plan_names) : plan_names[j] = p => j <= i).results]]

\* compare_plans: one search per name of the list with top_k = 3 and the name
\* as plan_filter, founds[i] being the row the index returned to search i; the
\* dict keeps, for a name listed twice, the results of its last search; an
\* exception of a search leaves compare_plans
compare_plans(chunks, query, plan_names, founds) ==
    LET out(i) == SearchOutcome(chunks, CompareTopK, plan_names[i], None, founds[i])
        failed == {i \in 1..Len(plan_names) : out(i).status # "ok"}
    IN  IF failed # {}
        THEN [status |-> out(CHOOSE i \in failed : \A j \in failed : i <= j).status]
        ELSE [status |-> "ok",
              query |-> query,
              comparison |->
                 [p \in {plan_names[i] : i \in 1..Len(plan_names)} |->
                    out(CHOOSE i \in 1..Len(plan_names) :
                           /\ plan_names[i] = p
                           /\ \A j \in 1..Len(plan_names) : plan_names[j] = p => j <= i).results]]

\* the lists of plan names compare_plans is called with: no name, one name or
\* two names, the two possibly the same
PlanNameLists ==
    {<<>>} \cup {<<p>> : p \in PlanNames} \cup {<<p, q>> : p, q \in PlanNames}

\* a store with four passages of PlanA and one of PlanB
FivePassages ==
    << [text |-> "A dental", type |-> "benefit", category |-> "dental", plan_name |-> "PlanA"],
       [text |-> "A overview", type |-> "overview", category |-> "general", plan_name |-> "PlanA"],
       [text |-> "B dental", type |-> "benefit", category |-> "dental", plan_name |-> "PlanB"],
       [text |-> "A gym", type |-> "benefit", category |-> "wellness", plan_name |-> "PlanA"],
       [text |-> "A summary", type |-> "overview", category |-> "general", plan_name |-> "PlanA"] >>

\* the stores compare_plans is run on
CompareStores == BuildInputs \cup {FivePassages}

\* a compare_plans call on a loaded retriever, when no other call is running
ComparePlans ==
    /\ retriever.status = "ready"
    /\ last_search = NoCall
    /\ \E query \in Queries, plan_names \in PlanNameLists :
          \E founds \in [1..Len(plan_names) ->
                            IndexSearchOutcomes(retriever.index, Encode(query),
                                NumCandidates(CompareTopK, Len(retriever.chunks)))] :
              last_search' = [op |-> "compare_plans", plan_names |-> plan_names]
                             @@ compare_plans(retriever.chunks, query, plan_names, founds)
    /\ UNCHANGED <<last_classify, retriever, index_dir, saver, loaded>>

InitCompare ==
    /\ last_classify = NoCall
    /\ retriever \in {LoadedFrom(chunks) : chunks \in CompareStores}
    /\ last_search = NoCall
    /\ index_dir = NoDir
    /\ saver = [pc |-> "idle", builds |-> 0]
    /\ loaded = NoCall

NextCompare == ComparePlans \/ Return

SpecCompare == InitCompare /\ [][NextCompare]_vars


(***************************************************************************)
(* Properties of compare_plans (checked under SpecCompare)                 *)
(***************************************************************************)
Compared == last_search.op = "compare_plans"

RequestedNames == {last_search.plan_names[i] : i \in 1..Len(last_search.plan_names)}

\* the mapping has exactly the requested names as keys, and each value holds
\* at most three results, all of the plan that is its key
ComparisonPerPlan ==
    /\ last_search.status = "ok"
    /\ DOMAIN last_search.comparison = RequestedNames
    /\ \A p \in RequestedNames :
          /\ Len(last_search.comparison[p]) <= 3
          /\ \A j \in 1..Len(last_search.comparison[p]) :
                Get(last_search.comparison[p][j], "plan_name") = p

\* C16, as stated: for any list of plan names, the mapping returned by
\* compare_plans has exactly the requested names as keys and each value is a
\* list of at most 3 results whose plan_name is the key.
C16_ComparisonPerPlanAnyNames ==
    Compared => ComparisonPerPlan

\* C16, amended: the same for any list of non-empty plan names.
C16_ComparisonPerPlanNonEmptyNames ==
    (Compared /\ \A p \in RequestedNames : Truthy(p)) => ComparisonPerPlan

\* compare_plans has run for PlanA and PlanB on the store with four PlanA
\* passages and has returned three results for PlanA and one for PlanB
C16_Witness ==
    /\ Compared
    /\ retriever.chunks = FivePassages
    /\ last_search.plan_names = <<"PlanA", "PlanB">>
    /\ last_search.status = "ok"
    /\ Len(last_search.comparison["PlanA"]) = 3
    /\ Len(last_search.comparison["PlanB"]) = 1

\* a name that is on no passage gets the empty list
C16_UnknownPlanReached ==
    /\ Compared
    /\ last_search.plan_names = <<"PlanC", "PlanA">>
    /\ last_search.status = "ok"
    /\ last_search.comparison["PlanC"] = <<>>
    /\ last_search.comparison["PlanA"] # <<>>


(***************************************************************************)
(* Concurrent search calls on one retriever                                *)
(***************************************************************************)
\* the number of threads that call search on the same retriever
MaxThreads == 2

Threads == 1..MaxThreads

\* the calls the threads make
ConcurrentCalls ==
    { [query |-> "dental?", top_k |-> 1, plan_filter |-> None, category_filter |-> None],
      [query |-> "gym?", top_k |-> 2, plan_filter |-> "PlanA", category_filter |-> None],
      [query |-> "dental?", top_k |-> 2, plan_filter |-> None, category_filter |-> "dental"] }

\* a thread that is not inside search
IdleCall == [pc |-> "idle"]

\* the local state of the threads' calls
calls == last_search.calls

\* a faulty variant of StoreAfterResult: without chunk.copy() the three search
\* fields are written into the chunk of the store
StoreAfterResultNoCopy(chunks, idx, result) ==
    [chunks EXCEPT ![idx + 1] = result]

\* self.chunks after a result was built from chunk idx: the fields are set on
\* the copy that chunk.copy() made, the store stays as it is
StoreAfterResult(chunks, idx, result) == chunks

\* thread t enters search with its arguments
BeginSearch(t) ==
    /\ retriever.status = "ready"
    /\ last_search.op = "concurrent"
    /\ calls[t].pc = "idle"
    /\ \E a \in ConcurrentCalls :
          last_search' = [last_search EXCEPT !.calls[t] = [pc |-> "encode", args |-> a]]
    /\ UNCHANGED <<last_classify, retriever, index_dir, saver, loaded>>

\* thread t embeds its query into its local query_embedding
EncodeQuery(t) ==
    /\ last_search.op = "concurrent"
    /\ calls[t].pc = "encode"
    /\ last_search' = [last_search EXCEPT !.calls[t] =
                          [pc |-> "index", args |-> calls[t].args,
                           query_embedding |-> Encode(calls[t].args.query)]]
    /\ UNCHANGED <<last_classify, retriever, index_dir, saver, loaded>>

\* thread t's index.search returns a row into its local distances/indices, or
\* raises
IndexLookup(t) ==
    /\ last_search.op = "concurrent"
    /\ calls[t].pc = "index"
    /\ \E found \in IndexSearchOutcomes(retriever.index, calls[t].query_embedding,
                        NumCandidates(calls[t].args.top_k, Len(retriever.chunks))) :
          last_search' = [last_search EXCEPT !.calls[t] =
              IF found.raised
              THEN [pc |-> "done", args |-> calls[t].args, found |-> found,
                    status |-> "AssertionError", results |-> <<>>]
              ELSE [pc |-> "loop", args |-> calls[t].args, found |-> found,
                    i |-> 1, results |-> <<>>]]
    /\ UNCHANGED <<last_classify, retriever, index_dir, saver, loaded>>

\* one pass of thread t through the body of the for loop (or the end of the
\* loop): candidate i of its row is skipped, or filtered out, or copied from
\* the store into its results
LoopStep(t) ==
    /\ last_search.op = "concurrent"
    /\ calls[t].pc = "loop"
    /\ LET c     == calls[t]
           cands == c.found.cands
           done(status, results) ==
               [pc |-> "done", args |-> c.args, found |-> c.found,
                status |-> status, results |-> results]
           next(results) == [c EXCEPT !.i = c.i + 1, !.results = results]
       IN  IF c.i > Len(cands)
           THEN /\ last_search' = [last_search EXCEPT !.calls[t] = done("ok", c.results)]
                /\ UNCHANGED retriever
           ELSE IF cands[c.i].idx = -1
           THEN /\ last_search' = [last_search EXCEPT !.calls[t] = next(c.results)]
                /\ UNCHANGED retriever
           ELSE IF cands[c.i].idx >= Len(retriever.chunks)
           THEN /\ last_search' = [last_search EXCEPT !.calls[t] = done("IndexError", <<>>)]
                /\ UNCHANGED retriever
           ELSE IF ~Accepts(retriever.chunks[cands[c.i].idx + 1],
                            c.args.plan_filter, c.args.category_filter)
           THEN /\ last_search' = [last_search EXCEPT !.calls[t] = next(c.results)]
                /\ UNCHANGED retriever
           ELSE LET result == SearchResult(retriever.chunks[cands[c.i].idx + 1],
                                           cands[c.i].distance, c.i - 1, cands[c.i].idx)
                    res    == Append(c.results, result)
                IN  /\ last_search' = [last_search EXCEPT !.calls[t] =
                           IF EnoughResults(res, c.args.top_k) THEN done("ok", res)
                           ELSE next(res)]
                    /\ retriever' = [retriever EXCEPT !.chunks =
                           StoreAfterResult(retriever.chunks, cands[c.i].idx, result)]
    /\ UNCHANGED <<last_classify, index_dir, saver, loaded>>

\* thread t's caller takes the returned list
FinishSearch(t) ==
    /\ last_search.op = "concurrent"
    /\ calls[t].pc = "done"
    /\ last_search' = [last_search EXCEPT !.calls[t] = IdleCall]
    /\ UNCHANGED <<last_classify, retriever, index_dir, saver, loaded>>

InitConcurrent ==
    /\ last_classify = NoCall
    /\ retriever \in {LoadedFrom(chunks) : chunks \in BuildInputs}
    /\ last_search = [op |-> "concurrent", calls |-> [t \in Threads |-> IdleCall]]
    /\ index_dir = NoDir
    /\ saver = [pc |-> "idle", builds |-> 0]
    /\ loaded = NoCall

NextConcurrent ==
    \E t \in Threads :
        \/ BeginSearch(t)
        \/ EncodeQuery(t)
        \/ IndexLookup(t)
        \/ LoopStep(t)
        \/ FinishSearch(t)

SpecConcurrent == InitConcurrent /\ [][NextConcurrent]_vars


(***************************************************************************)
(* Properties of concurrent searches (checked under SpecConcurrent)        *)
(***************************************************************************)
\* what the call of thread t returns when it runs alone on the store and the
\* index returns the same row to it
AloneOutcome(t) ==
    SearchOutcome(retriever.chunks, calls[t].args.top_k, calls[t].args.plan_filter,
                  calls[t].args.category_filter, calls[t].found)

\* no passage of the store carries a field that search sets on its results
StoreUntouched ==
    \A i \in 1..Len(retriever.chunks) :
        DOMAIN retriever.chunks[i] \cap {"similarity_score", "rank", "chunk_id"} = {}

\* C17: without any lock and under every interleaving of the steps of the
\* concurrent search calls, each call returns exactly what it returns when it
\* runs alone, and the calls leave the shared store as it was loaded.
C17_ConcurrentSearchesIndependent ==
    last_search.op = "concurrent" =>
        /\ StoreUntouched
        /\ \A t \in Threads :
              calls[t].pc = "done" =>
                  /\ calls[t].status = AloneOutcome(t).status
                  /\ calls[t].results = AloneOutcome(t).results

\* one call has returned two results while another call with other arguments,
\* begun before the first ended, is in the middle of its loop with one result
\* of the same store
C17_Witness ==
    /\ last_search.op = "concurrent"
    /\ \E t, u \in Threads :
          /\ t # u
          /\ calls[t].pc = "done" /\ Len(calls[t].results) = 2
          /\ calls[u].pc = "loop" /\ calls[u].i = 2 /\ Len(calls[u].results) = 1
          /\ calls[u].args # calls[t].args
          /\ \E j \in 1..2 : calls[u].results[1].chunk_id = calls[t].results[j].chunk_id


(***************************************************************************)
(* Passage ids of the results (checked under SpecSearch)                   *)
(***************************************************************************)
\* the fields that search sets on a result
SearchFields == {"similarity_score", "rank", "chunk_id"}

\* C22: every result returned by search carries a passage id that is a valid
\* position of the store (0 <= id < N, never -1), and the passage fields of
\* the result are exactly those of the store entry at that position, also
\* when the index returned fewer real candidates than requested.
C22_ResultsNameStorePassages ==
    Returned =>
        \A j \in 1..Len(last_search.results) :
            LET r == last_search.results[j]
            IN  /\ 0 <= r.chunk_id /\ r.chunk_id < Len(retriever.chunks)
                /\ DOMAIN r \ SearchFields = DOMAIN retriever.chunks[r.chunk_id + 1]
                /\ \A f \in DOMAIN r \ SearchFields :
                      r[f] = retriever.chunks[r.chunk_id + 1][f]

\* the index found fewer candidates than requested and filled the row with a
\* -1 entry, and the search returned the last passage of the store
C22_Witness ==
    /\ Returned
    /\ Len(last_search.cands) >= 2
    /\ \E i \in 1..Len(last_search.cands) : last_search.cands[i].idx = -1
    /\ \E j \in 1..Len(last_search.results) :
          last_search.results[j].chunk_id = Len(retriever.chunks) - 1
    /\ Len(retriever.chunks) >= 2


(***************************************************************************)
(* search_with_context, and all the calls of a loaded retriever together   *)
(***************************************************************************)
RECURSIVE GroupFromNewestFirst(_, _, _, _)
\* a faulty variant of GroupFrom: a result is put at the front of its group
GroupFromNewestFirst(results, i, by_plan, keys) ==
    IF i > Len(results) THEN [by_plan |-> by_plan, keys |-> keys]
    ELSE LET plan == GetOr(results[i], "plan_name", "Unknown")
         IN  IF plan \notin DOMAIN by_plan
             THEN GroupFromNewestFirst(results, i + 1, by_plan @@ (plan :> <<results[i]>>),
                                       Append(keys, plan))
             ELSE GroupFromNewestFirst(results, i + 1,
                      [by_plan EXCEPT ![plan] = <<results[i]>> \o by_plan[plan]], keys)

RECURSIVE GroupFrom(_, _, _, _)
\* the grouping loop of search_with_context from result i on: by_plan is the
\* dict so far, keys its keys in insertion order; a result without plan_name
\* goes to the group 'Unknown'
GroupFrom(results, i, by_plan, keys) ==
    IF i > Len(results) THEN [by_plan |-> by_plan, keys |-> keys]
    ELSE LET plan == GetOr(results[i], "plan_name", "Unknown")
         IN  IF plan \notin DOMAIN by_plan
             THEN GroupFrom(results, i + 1, by_plan @@ (plan :> <<results[i]>>),
                            Append(keys, plan))
             ELSE GroupFrom(results, i + 1,
                      [by_plan EXCEPT ![plan] = Append(by_plan[plan], results[i])], keys)

\* the empty dict
EmptyDict == [p \in {} |-> <<>>]

\* search_with_context: search without filters, then the grouping; an
\* exception of search leaves the function
search_with_context(chunks, query, top_k, found) ==
    LET out == SearchOutcome(chunks, top_k, None, None, found)
        grouped == GroupFrom(out.results, 1, EmptyDict, <<>>)
    IN  IF out.status # "ok" THEN [status |-> out.status]
        ELSE [status |-> "ok", query |-> query, total_results |-> Len(out.results),
              results |-> out.results, by_plan |-> grouped.by_plan,
              plans_found |-> grouped.keys]

RECURSIVE StoreAfterResultsNoCopy(_, _)
\* a faulty variant of StoreAfterResults: every result is written back into
\* its chunk of the store
StoreAfterResultsNoCopy(chunks, results) ==
    IF results = <<>> THEN chunks
    ELSE StoreAfterResultsNoCopy(
             StoreAfterResultNoCopy(chunks, Head(results).chunk_id, Head(results)),
             Tail(results))

RECURSIVE StoreAfterResults(_, _)
\* self.chunks after a search that built these results, one after the other
StoreAfterResults(chunks, results) ==
    IF results = <<>> THEN chunks
    ELSE StoreAfterResults(StoreAfterResult(chunks, Head(results).chunk_id, Head(results)),
                           Tail(results))

\* a search_with_context call on a loaded retriever, when no other call is
\* running
SearchWithContext ==
    /\ retriever.status = "ready"
    /\ last_search = NoCall
    /\ \E query \in Queries, top_k \in TopKs :
          \E found \in IndexSearchOutcomes(retriever.index, Encode(query),
                                           NumCandidates(top_k, Len(retriever.chunks))) :
              LET out == search_with_context(retriever.chunks, query, top_k, found)
              IN  /\ last_search' = [op |-> "search_with_context", top_k |-> top_k] @@ out
                  /\ retriever' = [retriever EXCEPT !.chunks =
                        StoreAfterResults(retriever.chunks,
                                          IF out.status = "ok" THEN out.results ELSE <<>>)]
    /\ UNCHANGED <<last_classify, index_dir, saver, loaded>>

NextCalls ==
    \/ Search
    \/ SearchWithContext
    \/ ComparePlans
    \/ \E plan_name \in PlanNames : GetPlanOverview(plan_name)
    \/ ListPlans
    \/ ListCategories
    \/ GetStatistics
    \/ Return

SpecCalls == InitCompare /\ [][NextCalls]_vars


(***************************************************************************)
(* Properties of search_with_context (checked under SpecCalls)             *)
(***************************************************************************)
WithContext == last_search.op = "search_with_context" /\ last_search.status = "ok"

\* the key of the group a result belongs to: its plan_name, 'Unknown' when it
\* has none
GroupKey(r) == GetOr(r, "plan_name", "Unknown")

\* by_plan splits the flat list by the given key: each group is the flat list
\* restricted to the results with that key, in the flat list's order, and no
\* group is empty; total_results and plans_found agree with the lists
PartitionedBy(key(_)) ==
    /\ DOMAIN last_search.by_plan =
          {key(last_search.results[j]) : j \in 1..Len(last_search.results)}
    /\ \A p \in DOMAIN last_search.by_plan :
          last_search.by_plan[p] = SelectSeq(last_search.results, LAMBDA r : key(r) = p)
    /\ last_search.total_results = Len(last_search.results)
    /\ Elements(last_search.plans_found) = DOMAIN last_search.by_plan
    /\ Len(last_search.plans_found) = Cardinality(DOMAIN last_search.by_plan)

\* C25, as stated: every result is in exactly one by_plan group, the group
\* keyed by its plan_name; the groups keep the order of the flat list,
\* total_results is the length of the flat list and plans_found is the set of
\* by_plan keys.
C25_GroupedByPlanName ==
    WithContext =>
        /\ \A j \in 1..Len(last_search.results) :
              "plan_name" \in DOMAIN last_search.results[j]
        /\ PartitionedBy(GroupKey)

\* C25, amended: the same with a result that has no plan_name placed in the
\* group keyed 'Unknown'.
C25_GroupedByPlanNameOrUnknown ==
    WithContext => PartitionedBy(GroupKey)

\* two results of two different groups were returned, one of them without a
\* plan name
C25_Witness ==
    /\ WithContext
    /\ Len(last_search.results) = 2
    /\ DOMAIN last_search.by_plan = {"Unknown", "PlanA"}
    /\ last_search.plans_found[1] = GroupKey(last_search.results[1])

\* two results of the same plan were returned and form one group
C25_OneGroupReached ==
    /\ WithContext
    /\ Len(last_search.results) = 2
    /\ DOMAIN last_search.by_plan = {"PlanB"}
    /\ last_search.by_plan["PlanB"] = last_search.results


(***************************************************************************)
(* The calls leave the store alone (checked under SpecCalls)               *)
(***************************************************************************)
\* C21: no call of search, search_with_context, compare_plans,
\* get_plan_overview, list_plans, list_categories or get_statistics changes
\* the passage store: after any sequence of them it holds the same passages
\* in the same order with the same fields, none of them with a
\* similarity_score, rank or chunk_id.
C21_CallsLeaveStoreUnchanged ==
    [][ retriever'.chunks = retriever.chunks /\ StoreUntouched' ]_vars

\* a search_with_context call has returned two results built from passages
\* of the store
C21_Witness ==
    /\ WithContext
    /\ Len(last_search.results) = 2
    /\ StoreUntouched
    /\ \A j \in 1..2 :
          retriever.chunks[last_search.results[j].chunk_id + 1].text
              = last_search.results[j].text


(***************************************************************************)
(* The number of candidates (checked under SpecCalls)                      *)
(***************************************************************************)
\* C23: on a store of N passages search asks the index for exactly
\* min(top_k * 3, N) nearest neighbours and examines no candidate beyond that
\* many, whatever the filters: the row it walks is no longer, and no result
\* has a rank past it.
C23_AsksForThreeTimesTopK ==
    Searched =>
        /\ last_search.k = Min(last_search.top_k * 3, Len(retriever.chunks))
        /\ Len(last_search.cands) <= Min(last_search.top_k * 3, Len(retriever.chunks))
              \/ Len(last_search.cands) = 0
        /\ \A j \in 1..Len(last_search.results) :
              last_search.results[j].rank <= Min(last_search.top_k * 3, Len(retriever.chunks))

\* a filtered search on the store of five passages asked for three
\* candidates, fewer than the store holds, walked all three and returned the
\* third
C23_Witness ==
    /\ Returned
    /\ Len(retriever.chunks) = 5
    /\ last_search.top_k = 1
    /\ Truthy(last_search.plan_filter)
    /\ last_search.k = 3
    /\ Len(last_search.cands) = 3
    /\ Len(last_search.results) = 1
    /\ last_search.results[1].rank = 3


(***************************************************************************)
(* Filtered searches and top_k (checked under SpecCalls)                   *)
(***************************************************************************)
\* a filter was supplied to the last search call
FilterSupplied == Truthy(last_search.plan_filter) \/ Truthy(last_search.category_filter)

\* the positions of the store whose passage satisfies the supplied filters
SatisfyingInStore == {i \in 1..Len(retriever.chunks) : SatisfiesFilters(retriever.chunks[i])}

\* the index found as many candidates as it was asked for, and they are the
\* nearest ones: no passage left out is nearer than a returned one
ExactRow ==
    /\ \A i \in 1..Len(last_search.cands) : last_search.cands[i].idx # -1
    /\ \A id \in 0..(Len(retriever.chunks) - 1) :
          (\A i \in 1..Len(last_search.cands) : last_search.cands[i].idx # id) =>
              \A i \in 1..Len(last_search.cands) :
                  last_search.cands[i].distance
                      <= Distance(Encode(last_search.query), retriever.index[id + 1])

\* C29, as stated: when a filter is supplied and the store holds at least
\* top_k passages that satisfy the supplied filters, search returns exactly
\* top_k results. (Stated for the calls with top_k >= 1, the others raise as
\* in C14, and for the calls in which the index returned exactly the nearest
\* candidates it was asked for.)
C29_ExactlyTopKWhenStoreHasEnough ==
    (Searched /\ last_search.top_k >= 1 /\ FilterSupplied /\ ExactRow
        /\ Cardinality(SatisfyingInStore) >= last_search.top_k)
    => (Returned /\ Len(last_search.results) = last_search.top_k)

\* C29, amended: when a filter is supplied, top_k >= 1 and at least top_k of
\* the candidates that the index returned satisfy the supplied filters,
\* search returns exactly top_k results.
C29_ExactlyTopKWhenCandidatesHaveEnough ==
    (Searched /\ last_search.top_k >= 1 /\ FilterSupplied
        /\ Len(Survivors) >= last_search.top_k)
    => (Returned /\ Len(last_search.results) = last_search.top_k)

\* a filtered search with top_k = 2 found three matching candidates and
\* returned two
C29_Witness ==
    /\ Returned
    /\ FilterSupplied
    /\ last_search.top_k = 2
    /\ Len(Survivors) = 3
    /\ Len(last_search.results) = 2


(***************************************************************************)
(* Consistency of get_statistics (checked under SpecOps)                   *)
(***************************************************************************)
RECURSIVE SumOfCounts(_)
\* the sum of the values of a dict of counts
SumOfCounts(counts) ==
    IF DOMAIN counts = {} THEN 0
    ELSE LET key == CHOOSE x \in DOMAIN counts : TRUE
         IN  counts[key] + SumOfCounts([x \in DOMAIN counts \ {key} |-> counts[x]])

\* C28: the dict returned by get_statistics is consistent in itself:
\* total_plans is the number of keys of chunks_by_plan, len(categories) the
\* number of keys of chunks_by_category, and the counts of chunks_by_plan and
\* of chunks_by_category each sum to total_chunks.
C28_StatisticsConsistent ==
    last_search.op = "get_statistics" =>
        LET stats == last_search.result
        IN  /\ stats.total_plans = Cardinality(DOMAIN stats.chunks_by_plan)
            /\ Len(stats.categories) = Cardinality(DOMAIN stats.chunks_by_category)
            /\ SumOfCounts(stats.chunks_by_plan) = stats.total_chunks
            /\ SumOfCounts(stats.chunks_by_category) = stats.total_chunks


(***************************************************************************)
(* The persisted summary and get_statistics                                *)
(***************************************************************************)
\* builds of a location, retrievers loaded from it and their get_statistics
\* calls
NextSummary ==
    \/ \E chunks \in BuildInputs : StartSave(chunks)
    \/ BeginWrite
    \/ FinishWrite
    \/ RetrieverInit
    \/ GetStatistics
    \/ Return

SpecSummary == InitPersist /\ [][NextSummary]_vars

\* C24: the summary that save_all wrote agrees with what get_statistics
\* computes from the same passages: total_chunks, total_plans, the set of
\* plans and the set of categories are equal.
C24_SummaryAgreesWithStatistics ==
    (last_search.op = "get_statistics" /\ SaveReturned /\ retriever.chunks = saver.chunks)
    => LET summary == index_dir.files["metadata.json"].data
           stats   == last_search.result
       IN  /\ summary.total_chunks = stats.total_chunks
           /\ summary.total_plans = stats.total_plans
           /\ summary.plans = Elements(stats.plans)
           /\ summary.categories = Elements(stats.categories)


(***************************************************************************)
(* Categories and counts of the chunker's passages (checked under          *)
(* SpecChunk)                                                              *)
(***************************************************************************)
\* chunk_file has returned its list
ChunkedFile == last_classify.op = "chunk_file" /\ ~last_classify.outcome.raised

\* the benefit records of the file that was chunked
BenefitsOfFile == GetOr(last_classify.data, "benefits", <<>>)

\* C26: every passage that chunk_file produces carries the category assigned
\* to it: the overview has category 'general' and type 'overview', the
\* passage of a benefit record has the category that classify gives for its
\* lower-cased service and description, whatever keys the file's metadata has.
C26_PassagesCarryAssignedCategory ==
    ChunkedFile =>
        LET passages == last_classify.outcome.value
        IN  /\ passages[1].category = "general"
            /\ passages[1].type = "overview"
            /\ \A i \in 1..Len(BenefitsOfFile) :
                  passages[i + 1].category =
                      classify(Lower(BenefitsOfFile[i].service) \o " "
                               \o Lower(BenefitsOfFile[i].description))


RECURSIVE ConcatenatedFiles(_)
\* the lists chunk_file returns for the files, one after the other
ConcatenatedFiles(files) ==
    IF files = <<>> THEN <<>>
    ELSE chunk_file(Head(files)).value \o ConcatenatedFiles(Tail(files))

\* C27: for a file with n benefit records chunk_file returns n + 1 passages,
\* the overview first and then the passage of each record in input order;
\* process_all returns the per-file lists one after the other, nothing
\* dropped or reordered.
C27_OnePassagePerRecord ==
    /\ last_classify.op = "chunk_file" =>
          /\ ~last_classify.outcome.raised
          /\ Len(last_classify.outcome.value) = Len(BenefitsOfFile) + 1
          /\ last_classify.outcome.value[1] = create_overview(last_classify.data.metadata)
          /\ \A i \in 1..Len(BenefitsOfFile) :
                last_classify.outcome.value[i + 1] =
                    create_benefit_chunk(BenefitsOfFile[i], last_classify.data.metadata).value
    /\ last_classify.op = "process_all" =>
          /\ ~last_classify.outcome.raised
          /\ last_classify.outcome.value = ConcatenatedFiles(last_classify.files)

====
